---- MODULE Spec2Model ----
(***************************************************************************)
(* The employee record store of src/main.py: one SQLite table `employees`  *)
(* whose columns can be extended at run time, and the functions that       *)
(* create, read, update and delete its rows.  The storage engine is        *)
(* modelled by what it does with the statements the functions build:       *)
(* column affinity, NOT NULL and PRIMARY KEY constraints, rowid            *)
(* assignment, and the column definition it parses out of an ALTER TABLE   *)
(* statement.                                                              *)
(***************************************************************************)
EXTENDS Integers, Sequences, FiniteSets, TLC

VARIABLES
    columns,   \* PRAGMA table_info(employees): the table's columns in order; <<>> while the table does not exist
    rows,      \* the table's rows: rowid -> [column name -> stored value]
    last       \* the last call: its function, its arguments and what it returned or raised

vars == <<columns, rows, last>>

----------------------------------------------------------------------------
(* Bounds of the model.                                                    *)

MaxId == 2       \* largest rowid a row gets, so the table holds at most that many rows
MaxBatch == 2    \* names handed to one add_extra_columns call at most

----------------------------------------------------------------------------
(* Python values: None, numbers and strings.  SQL NULL is Python's None.   *)

None == [t |-> "None"]
I(n) == [t |-> "num", n |-> n]
S(s) == [t |-> "str", s |-> s]

IsNum(v) == v.t = "num"
IsStr(v) == v.t = "str"

\* What a call did: returned a value, or raised an exception.
Ok(v) == [status |-> "return", value |-> v]
Raise(e) == [status |-> "raise", exc |-> e]

\* Python's truth value of an argument: None, 0 and "" are false.
Truthy(v) ==
    /\ v # None
    /\ IsNum(v) => v.n # 0
    /\ IsStr(v) => v.s # ""

Digits == <<"0", "1", "2", "3", "4", "5", "6", "7", "8", "9">>

\* The decimal numeral of a natural number, as the engine writes it when a
\* number is stored in a column of TEXT affinity.
RECURSIVE ToText(_)
ToText(n) ==
    IF n < 10 THEN Digits[n + 1]
    ELSE ToText(n \div 10) \o Digits[(n % 10) + 1]

\* The numerals the model can read back as numbers.
Numerals == {ToText(n) : n \in 0..9}
ToNum(s) == CHOOSE n \in 0..9 : ToText(n) = s

\* The value the engine stores when v is written to a column of the given
\* affinity: TEXT turns a number into its numeral, REAL and INTEGER turn a
\* well-formed numeral into the number, BLOB (no declared type) keeps v.
ApplyAffinity(affinity, v) ==
    CASE v = None -> None
      [] affinity = "TEXT" /\ IsNum(v) -> S(ToText(v.n))
      [] affinity \in {"REAL", "INTEGER"} /\ IsStr(v) /\ v.s \in Numerals -> I(ToNum(v.s))
      [] OTHER -> v

----------------------------------------------------------------------------
(* The schema.                                                             *)

Column(name, affinity, notnull, pk) ==
    [name |-> name, affinity |-> affinity, notnull |-> notnull, pk |-> pk]

\* CREATE TABLE IF NOT EXISTS employees (id integer PRIMARY KEY,
\*   name text NOT NULL, department text NOT NULL, salary real)
BaseColumns ==
    << Column("id", "INTEGER", FALSE, TRUE),
       Column("name", "TEXT", TRUE, FALSE),
       Column("department", "TEXT", TRUE, FALSE),
       Column("salary", "REAL", FALSE, FALSE) >>

TableExists(cols) == cols # <<>>

ColumnNames(cols) == {cols[i].name : i \in 1..Len(cols)}

ColumnNamed(cols, name) == cols[CHOOSE i \in 1..Len(cols) : cols[i].name = name]

\* get_columns: the names PRAGMA table_info reports, without 'id'.  The PRAGMA
\* reports no rows for a table that does not exist.
get_columns(cols) ==
    LET columns_info == SelectSeq(cols, LAMBDA info : info.name # "id")
    IN  [i \in 1..Len(columns_info) |-> columns_info[i].name]

----------------------------------------------------------------------------
(* ALTER TABLE employees ADD COLUMN {column} TEXT.  The caller's text is   *)
(* spliced into the statement as it is, so the engine reads a column       *)
(* definition out of the text followed by TEXT.  The text is given here as *)
(* the SQL tokens it lexes to: "bonus pay" is <<"bonus", "pay">>.          *)

Punctuation == {"-", ",", ";"}
IntTypeNames == {"INT", "INTEGER"}

\* The column definition `tokens TEXT`: the first word is the column's name
\* and the words after it are its declared type, which sets its affinity
\* (a type naming INT is INTEGER, one naming TEXT is TEXT, no type is BLOB).
ColumnDefWords(tokens) == tokens \o <<"TEXT">>

IsSyntaxError(tokens) == \E i \in 1..Len(tokens) : tokens[i] \in Punctuation

DeclaredAffinity(type) ==
    IF type = <<>> THEN "BLOB"
    ELSE IF \E i \in 1..Len(type) : type[i] \in IntTypeNames THEN "INTEGER"
    ELSE "TEXT"

ParseColumnDef(tokens) ==
    LET words == ColumnDefWords(tokens)
    IN  Column(Head(words), DeclaredAffinity(Tail(words)), FALSE, FALSE)

\* A faulty ALTER TABLE that adds the column without looking for a column of
\* the same name.
AlterAddColumnUnchecked(cols, rws, tokens) ==
    IF IsSyntaxError(tokens) \/ ~TableExists(cols)
    THEN [columns |-> cols, rows |-> rws, result |-> Raise("OperationalError")]
    ELSE LET col == ParseColumnDef(tokens)
         IN  [columns |-> Append(cols, col),
              rows |-> [id \in DOMAIN rws |->
                          [c \in DOMAIN rws[id] \cup {col.name} |->
                              IF c = col.name THEN None ELSE rws[id][c]]],
              result |-> Ok(None)]

\* One ALTER TABLE statement on the table (cols, rws).  It raises
\* OperationalError on a syntax error, on a missing table and on a column
\* name the table already has; otherwise the column is appended and every
\* existing row holds NULL in it.  sqlite3 runs the statement outside any
\* transaction, so its effect is durable as soon as execute returns.
AlterAddColumn(cols, rws, tokens) ==
    IF IsSyntaxError(tokens) \/ ~TableExists(cols)
       \/ ParseColumnDef(tokens).name \in ColumnNames(cols)
    THEN [columns |-> cols, rows |-> rws, result |-> Raise("OperationalError")]
    ELSE LET col == ParseColumnDef(tokens)
         IN  [columns |-> Append(cols, col),
              rows |-> [id \in DOMAIN rws |->
                          [c \in DOMAIN rws[id] \cup {col.name} |->
                              IF c = col.name THEN None ELSE rws[id][c]]],
              result |-> Ok(None)]

\* add_extra_columns: one ALTER TABLE per name, in order; the first statement
\* that raises ends the loop and the call, with the columns added before it
\* left in the table.
RECURSIVE add_extra_columns(_, _, _)
add_extra_columns(cols, rws, names) ==
    IF names = <<>> THEN [columns |-> cols, rows |-> rws, result |-> Ok(None)]
    ELSE LET one == AlterAddColumn(cols, rws, Head(names))
         IN  IF one.result.status = "raise" THEN one
             ELSE add_extra_columns(one.columns, one.rows, Tail(names))

----------------------------------------------------------------------------
(* Rows.                                                                   *)

\* create_table: CREATE TABLE IF NOT EXISTS; an existing table is kept as it is.
create_table(cols) == IF TableExists(cols) THEN cols ELSE BaseColumns

\* The rowid the engine gives a row inserted without one: one more than the
\* largest rowid in the table, 1 in an empty table.
NextRowid(rws) ==
    IF DOMAIN rws = {} THEN 1
    ELSE (CHOOSE m \in DOMAIN rws : \A k \in DOMAIN rws : k <= m) + 1

\* A faulty write that knows the columns of CREATE TABLE only: a value for a
\* column added later is dropped.
WrittenRowBaseOnly(cols, old, employee) ==
    [c \in ColumnNames(cols) \ {"id"} |->
        IF c \in DOMAIN employee /\ c \in ColumnNames(BaseColumns)
        THEN ApplyAffinity(ColumnNamed(cols, c).affinity, employee[c])
        ELSE old[c]]

\* The values a statement that names the columns of `employee` writes to the
\* non-key columns: each named column gets its value under the column's
\* affinity, and (with `old` the row before an UPDATE, or every column NULL
\* for an INSERT) every other column keeps old's value.
WrittenRow(cols, old, employee) ==
    [c \in ColumnNames(cols) \ {"id"} |->
        IF c \in DOMAIN employee
        THEN ApplyAffinity(ColumnNamed(cols, c).affinity, employee[c])
        ELSE old[c]]

NullRow(cols) == [c \in ColumnNames(cols) \ {"id"} |-> None]

ViolatesNotNull(cols, row) ==
    \E c \in DOMAIN row : ColumnNamed(cols, c).notnull /\ row[c] = None

\* The statement does not compile: no table, no column named at all, or a
\* name that is no column of the table.
DoesNotCompile(cols, employee) ==
    \/ ~TableExists(cols)
    \/ DOMAIN employee = {}
    \/ ~(DOMAIN employee \subseteq ColumnNames(cols))

\* A faulty insert, INSERT OR REPLACE: a record that names the id of a row
\* takes that row's place.
insert_or_replace_employee(cols, rws, employee) ==
    IF DoesNotCompile(cols, employee)
    THEN [rows |-> rws, result |-> Raise("OperationalError")]
    ELSE LET row == WrittenRow(cols, NullRow(cols), employee)
             id == IF "id" \in DOMAIN employee
                   THEN ApplyAffinity("INTEGER", employee["id"]).n
                   ELSE NextRowid(rws)
         IN  IF ViolatesNotNull(cols, row)
             THEN [rows |-> rws, result |-> Raise("IntegrityError")]
             ELSE [rows |-> [k \in DOMAIN rws \cup {id} |->
                               IF k = id THEN row ELSE rws[k]],
                   result |-> Ok(I(id))]

\* insert_employee: INSERT INTO employees (keys) VALUES (?, ...), commit,
\* return lastrowid.  A column the record does not name is NULL.  A record
\* that names id asks for that rowid.
insert_employee(cols, rws, employee) ==
    IF DoesNotCompile(cols, employee)
    THEN [rows |-> rws, result |-> Raise("OperationalError")]
    ELSE LET row == WrittenRow(cols, NullRow(cols), employee)
             id == IF "id" \in DOMAIN employee
                   THEN ApplyAffinity("INTEGER", employee["id"]).n
                   ELSE NextRowid(rws)
         IN  IF ViolatesNotNull(cols, row) \/ id \in DOMAIN rws
             THEN [rows |-> rws, result |-> Raise("IntegrityError")]
             ELSE [rows |-> [k \in DOMAIN rws \cup {id} |->
                               IF k = id THEN row ELSE rws[k]],
                   result |-> Ok(I(id))]

\* update_employee: UPDATE employees SET key = ?, ... WHERE id = ?, commit.
\* A statement that matches no row changes nothing and raises nothing.
update_employee(cols, rws, employee, employee_id) ==
    IF DoesNotCompile(cols, employee)
    THEN [rows |-> rws, result |-> Raise("OperationalError")]
    ELSE IF employee_id \notin DOMAIN rws
    THEN [rows |-> rws, result |-> Ok(None)]
    ELSE LET row == WrittenRow(cols, rws[employee_id], employee)
             id == IF "id" \in DOMAIN employee
                   THEN ApplyAffinity("INTEGER", employee["id"]).n
                   ELSE employee_id
         IN  IF ViolatesNotNull(cols, row) \/ (id # employee_id /\ id \in DOMAIN rws)
             THEN [rows |-> rws, result |-> Raise("IntegrityError")]
             ELSE [rows |-> [k \in (DOMAIN rws \ {employee_id}) \cup {id} |->
                               IF k = id THEN row ELSE rws[k]],
                   result |-> Ok(None)]

\* A faulty delete, WHERE id <= ?: it takes the rows of smaller ids along.
delete_employees_upto(cols, rws, id) ==
    IF ~TableExists(cols)
    THEN [rows |-> rws, result |-> Raise("OperationalError")]
    ELSE [rows |-> [k \in {j \in DOMAIN rws : j > id} |-> rws[k]],
          result |-> Ok(None)]

\* delete_employee: DELETE FROM employees WHERE id = ?, commit.
delete_employee(cols, rws, id) ==
    IF ~TableExists(cols)
    THEN [rows |-> rws, result |-> Raise("OperationalError")]
    ELSE [rows |-> [k \in DOMAIN rws \ {id} |-> rws[k]], result |-> Ok(None)]

----------------------------------------------------------------------------
(* Queries.  SELECT * yields each row as a tuple of its values in column   *)
(* order, the rows in rowid order.                                         *)

RowTuple(cols, rws, id) ==
    [i \in 1..Len(cols) |-> IF cols[i].pk THEN I(id) ELSE rws[id][cols[i].name]]

RECURSIVE Ascending(_)
Ascending(ids) ==
    IF ids = {} THEN <<>>
    ELSE LET m == CHOOSE m \in ids : \A k \in ids : m <= k
         IN  <<m>> \o Ascending(ids \ {m})

FetchAll(cols, rws, ids) ==
    LET order == Ascending(ids)
    IN  [i \in 1..Len(order) |-> RowTuple(cols, rws, order[i])]

\* select_all_employees
select_all_employees(cols, rws) ==
    IF ~TableExists(cols) THEN Raise("OperationalError")
    ELSE Ok(FetchAll(cols, rws, DOMAIN rws))

\* select_employee_by_id: fetchone, None when no row has the id.
select_employee_by_id(cols, rws, id) ==
    IF ~TableExists(cols) THEN Raise("OperationalError")
    ELSE IF id \in DOMAIN rws THEN Ok(RowTuple(cols, rws, id))
    ELSE Ok(None)

\* SQL's salary >= ? and salary <= ? with a number for ?: NULL compares to
\* nothing, a number compares by value, and text sorts after every number.
SqlGE(v, bound) ==
    /\ v # None
    /\ IsNum(v) => v.n >= bound.n
SqlLE(v, bound) ==
    /\ v # None
    /\ IsNum(v)
    /\ v.n <= bound.n

\* A faulty WHERE clause whose salary bounds are exclusive: salary > ? and
\* salary < ?.
MatchesFilterExclusive(row, department, min_salary, max_salary) ==
    /\ Truthy(department) => row["department"] = department
    /\ Truthy(min_salary) => SqlGE(row["salary"], I(min_salary.n + 1))
    /\ Truthy(max_salary) => SqlLE(row["salary"], I(max_salary.n - 1))

\* The WHERE clause select_employees_filtered builds: a condition is added
\* for each argument that is true in Python's sense.
MatchesFilter(row, department, min_salary, max_salary) ==
    /\ Truthy(department) => row["department"] = department
    /\ Truthy(min_salary) => SqlGE(row["salary"], min_salary)
    /\ Truthy(max_salary) => SqlLE(row["salary"], max_salary)

select_employees_filtered(cols, rws, department, min_salary, max_salary) ==
    IF ~TableExists(cols) THEN Raise("OperationalError")
    ELSE Ok(FetchAll(cols, rws,
                     {id \in DOMAIN rws :
                        MatchesFilter(rws[id], department, min_salary, max_salary)}))

----------------------------------------------------------------------------
(* The calls the model makes.                                              *)

\* The values a caller passes for a column: strings for the text columns
\* (and, for department, a number, which the column's affinity rewrites),
\* numbers for salary.  NULL reaches a column when a record leaves it out.
AttributeInputs(c) ==
    CASE c = "id" -> {I(k) : k \in 1..MaxId}
      [] c = "name" -> {S("Ana")}
      [] c = "department" -> {S("Eng"), I(1)}
      [] c = "salary" -> {I(1), I(2)}
      [] OTHER -> {S("x")}

\* The key sets of the records passed: the current attributes, the current
\* attributes without one of them, and the current attributes with id or
\* with a name that is no column.
KeySets(cols) ==
    LET A == ColumnNames(cols) \ {"id"}
    IN  {A} \cup {A \ {c} : c \in A} \cup {A \cup {"id"}, A \cup {"zzz"}}

RECURSIVE RecordsOver(_)
RecordsOver(K) ==
    IF K = {} THEN {<<>>}
    ELSE LET c == CHOOSE c \in K : TRUE
         IN  {f @@ (c :> v) : f \in RecordsOver(K \ {c}), v \in AttributeInputs(c)}

Employees(cols) == UNION {RecordsOver(K) : K \in KeySets(cols)}

Ids == 1..MaxId

\* The texts passed to add_extra_columns, as the tokens they lex to: a new
\* name, text with a space in it, the key column's name, and text with a
\* character that is no part of an identifier.
ColumnTexts ==
    { <<"bonus">>, <<"bonus", "pay">>, <<"id">>, <<"a", "-", "b">> }

ColumnBatches == UNION {[1..n -> ColumnTexts] : n \in 0..MaxBatch}

DepartmentArgs == {None, S(""), S("Eng")}
SalaryArgs == {None, I(0), I(1)}

Init ==
    /\ columns = <<>>
    /\ rows = <<>>
    /\ last = [op |-> "connect"]

CreateTable ==
    /\ columns' = create_table(columns)
    /\ rows' = rows
    /\ last' = [op |-> "create_table", result |-> Ok(None)]

Insert ==
    \E employee \in Employees(columns) :
        LET r == insert_employee(columns, rows, employee)
        IN  /\ r.result.status = "return" => r.result.value.n <= MaxId
            /\ rows' = r.rows
            /\ columns' = columns
            /\ last' = [op |-> "insert_employee", employee |-> employee,
                        result |-> r.result]

Update ==
    \E employee \in Employees(columns), id \in Ids :
        LET r == update_employee(columns, rows, employee, id)
        IN  /\ rows' = r.rows
            /\ columns' = columns
            /\ last' = [op |-> "update_employee", employee |-> employee,
                        id |-> id, result |-> r.result]

Delete ==
    \E id \in Ids :
        LET r == delete_employee(columns, rows, id)
        IN  /\ rows' = r.rows
            /\ columns' = columns
            /\ last' = [op |-> "delete_employee", id |-> id, result |-> r.result]

SelectAll ==
    /\ last' = [op |-> "select_all_employees",
                result |-> select_all_employees(columns, rows)]
    /\ UNCHANGED <<columns, rows>>

SelectById ==
    \E id \in Ids :
        /\ last' = [op |-> "select_employee_by_id", id |-> id,
                    result |-> select_employee_by_id(columns, rows, id)]
        /\ UNCHANGED <<columns, rows>>

SelectFiltered ==
    \E department \in DepartmentArgs, min_salary \in SalaryArgs, max_salary \in SalaryArgs :
        /\ last' = [op |-> "select_employees_filtered", department |-> department,
                    min_salary |-> min_salary, max_salary |-> max_salary,
                    result |-> select_employees_filtered(columns, rows, department,
                                                         min_salary, max_salary)]
        /\ UNCHANGED <<columns, rows>>

AddExtraColumns ==
    \E names \in ColumnBatches :
        LET r == add_extra_columns(columns, rows, names)
        IN  /\ columns' = r.columns
            /\ rows' = r.rows
            /\ last' = [op |-> "add_extra_columns", columns |-> names,
                        result |-> r.result]

GetColumns ==
    /\ last' = [op |-> "get_columns", result |-> Ok(get_columns(columns))]
    /\ UNCHANGED <<columns, rows>>

Next ==
    \/ CreateTable
    \/ Insert
    \/ Update
    \/ Delete
    \/ SelectAll
    \/ SelectById
    \/ SelectFiltered
    \/ AddExtraColumns
    \/ GetColumns

Spec == Init /\ [][Next]_vars

----------------------------------------------------------------------------
(* Vocabulary of the properties.                                           *)

Range(seq) == {seq[i] : i \in 1..Len(seq)}

IsPrefix(s, t) == Len(s) <= Len(t) /\ \A i \in 1..Len(s) : s[i] = t[i]

\* currentAttributes() of the table in the given state.
Attributes(cols) == get_columns(cols)

\* The value of attribute number i in a row tuple: the tuple leads with id.
AttributeValue(tuple, i) == tuple[i + 1]

\* The position of a column in the row tuples, headed ['id'] + get_columns.
FieldIndex(cols, name) ==
    CHOOSE i \in 1..Len(cols) : (<<"id">> \o get_columns(cols))[i] = name

\* The record's values have the types the data model gives the attributes:
\* a number or nothing for salary, a string for every other attribute.
WellTyped(employee) ==
    \A c \in DOMAIN employee :
        IF c = "salary" THEN employee[c] = None \/ IsNum(employee[c])
        ELSE IsStr(employee[c])

\* The row tuple that getById(id) returns equals the record, attribute by attribute.
ReadsBack(cols, rws, id, employee) ==
    LET got == select_employee_by_id(cols, rws, id)
        attrs == Attributes(cols)
    IN  /\ got.status = "return"
        /\ got.value # None
        /\ got.value[1] = I(id)
        /\ \A i \in 1..Len(attrs) : AttributeValue(got.value, i) = employee[attrs[i]]

InsertOfCurrentAttributes ==
    /\ last.op = "insert_employee"
    /\ TableExists(columns)
    /\ DOMAIN last.employee = Range(Attributes(columns))

\* C1 as stated: for every record whose key set equals currentAttributes(),
\* insert followed at once by getById of the returned id yields the returned
\* id and, for every attribute, the value the record supplied.
C1_RoundTripAnyValues ==
    (InsertOfCurrentAttributes /\ last.result.status = "return")
        => ReadsBack(columns, rows, last.result.value.n, last.employee)

\* C1 as amended: for every record whose key set equals currentAttributes()
\* and whose values have the attributes' types (strings for the text
\* attributes, a number or nothing for salary), insert followed at once by
\* getById of the returned id yields the returned id and, for every
\* attribute, the value the record supplied.
C1_RoundTripTypedValues ==
    (InsertOfCurrentAttributes /\ WellTyped(last.employee)
                               /\ last.result.status = "return")
        => ReadsBack(columns, rows, last.result.value.n, last.employee)

\* A typed record over a grown schema has been inserted beside another row.
C1_Witness ==
    /\ InsertOfCurrentAttributes
    /\ WellTyped(last.employee)
    /\ "bonus" \in DOMAIN last.employee
    /\ last.result = Ok(I(2))
    /\ Cardinality(DOMAIN rows) = 2

\* C2: an insert whose key set differs from currentAttributes() fails before
\* any write: rows and schema are after the call what they were before it.
C2_MismatchedKeysRejected ==
    [][(/\ last'.op = "insert_employee"
        /\ TableExists(columns)
        /\ DOMAIN last'.employee # Range(Attributes(columns)))
          => /\ last'.result.status = "raise"
             /\ rows' = rows
             /\ columns' = columns]_vars

\* A record satisfies the predicates among department, minSalary and
\* maxSalary that Supplied singles out: its department is the string, its
\* salary is a number at least minSalary and at most maxSalary.
SatisfiesSupplied(tuple, Supplied(_)) ==
    LET department == tuple[FieldIndex(columns, "department")]
        salary == tuple[FieldIndex(columns, "salary")]
    IN  /\ Supplied(last.department) => department = last.department
        /\ Supplied(last.min_salary) => IsNum(salary) /\ salary.n >= last.min_salary.n
        /\ Supplied(last.max_salary) => IsNum(salary) /\ salary.n <= last.max_salary.n

FilteredIsSubsetWhere(Supplied(_)) ==
    (last.op = "select_employees_filtered" /\ TableExists(columns))
        => last.result =
             Ok(SelectSeq(select_all_employees(columns, rows).value,
                          LAMBDA tuple : SatisfiesSupplied(tuple, Supplied)))

\* C3 as stated: queryFiltered returns exactly the records of queryAll()
\* that satisfy every supplied predicate, a predicate being supplied when
\* its argument is given at all (any string, any number >= 0).
C3_FilterEveryGivenArgument ==
    FilteredIsSubsetWhere(LAMBDA arg : arg # None)

\* C3 as amended: queryFiltered returns exactly the records of queryAll()
\* that satisfy every supplied predicate (bounds inclusive), where a
\* department of "" and a salary bound of 0 count as absent, like an
\* argument that is not given; on a store without records the result is
\* the empty sequence.
C3_FilterEveryNonEmptyArgument ==
    FilteredIsSubsetWhere(LAMBDA arg : arg # None /\ arg # S("") /\ arg # I(0))

\* All three predicates are supplied and they keep one record of two.
C3_Witness ==
    /\ last.op = "select_employees_filtered"
    /\ last.department = S("Eng")
    /\ last.min_salary = I(1)
    /\ last.max_salary = I(1)
    /\ Cardinality(DOMAIN rows) = 2
    /\ last.result.status = "return"
    /\ Len(last.result.value) = 1

\* A name the allow-list admits: one identifier that is not the key column's name.
IsAllowedName(tokens) ==
    /\ Len(tokens) = 1
    /\ tokens[1] \notin Punctuation
    /\ tokens[1] # "id"

Occurrences(seq, x) == Cardinality({i \in 1..Len(seq) : seq[i] = x})

\* C4: an addAttributes call of allowed names, one of which the schema
\* already has, does not fail, leaves that name in the schema once and
\* adds every other name of the call.
C4_ReAddIsNoOp ==
    [][(/\ last'.op = "add_extra_columns"
        /\ TableExists(columns)
        /\ \A i \in 1..Len(last'.columns) : IsAllowedName(last'.columns[i])
        /\ \E i \in 1..Len(last'.columns) :
              last'.columns[i][1] \in Range(Attributes(columns)))
          => /\ last'.result.status = "return"
             /\ \A i \in 1..Len(last'.columns) :
                   Occurrences(Attributes(columns'), last'.columns[i][1]) = 1]_vars

\* C5: an addAttributes call with a name that is the key column's name or
\* holds a character outside the allow-list is rejected, and schema and
\* records are unchanged.
C5_UnsafeNameRejected ==
    [][(/\ last'.op = "add_extra_columns"
        /\ TableExists(columns)
        /\ \E i \in 1..Len(last'.columns) : ~IsAllowedName(last'.columns[i]))
          => /\ last'.result.status = "raise"
             /\ columns' = columns
             /\ rows' = rows]_vars

\* C6: an addAttributes call that fails on one name has added none of its
\* names: currentAttributes() is after the call what it was before it.
C6_AddAttributesAllOrNothing ==
    [][(last'.op = "add_extra_columns" /\ last'.result.status = "raise")
          => Attributes(columns') = Attributes(columns)]_vars

\* C7: update(id, record) of a record over attributes fails when no record
\* has the id and leaves the records unchanged; when a record has the id it
\* overwrites the named attributes of that record only, and leaves the
\* record's id, every other record and the schema unchanged.
C7_UpdateMissingIdFails ==
    [][(/\ last'.op = "update_employee"
        /\ TableExists(columns)
        /\ DOMAIN last'.employee # {}
        /\ DOMAIN last'.employee \subseteq Range(Attributes(columns)))
          => /\ columns' = columns
             /\ last'.id \notin DOMAIN rows
                  => last'.result.status = "raise" /\ rows' = rows
             /\ last'.id \in DOMAIN rows
                  => /\ last'.result.status = "return"
                     /\ DOMAIN rows' = DOMAIN rows
                     /\ \A k \in DOMAIN rows \ {last'.id} : rows'[k] = rows[k]
                     /\ \A c \in DOMAIN rows[last'.id] \ DOMAIN last'.employee :
                           rows'[last'.id][c] = rows[last'.id][c]]_vars

\* C8: delete(id) is followed by getById(id) reporting absence; it removes
\* no record of another id; and a delete of an id no record has is no
\* error and leaves the store as it was.
C8_DeleteThenAbsent ==
    [][(last'.op = "delete_employee" /\ TableExists(columns))
          => /\ last'.result = Ok(None)
             /\ select_employee_by_id(columns', rows', last'.id) = Ok(None)
             /\ columns' = columns
             /\ DOMAIN rows' = DOMAIN rows \ {last'.id}
             /\ \A k \in DOMAIN rows' : rows'[k] = rows[k]
             /\ last'.id \notin DOMAIN rows => rows' = rows]_vars

\* A delete has left its id absent beside a record of another id.
C8_Witness ==
    /\ last.op = "delete_employee"
    /\ last.result = Ok(None)
    /\ last.id = 1
    /\ DOMAIN rows = {2}

\* C9: once the table exists, currentAttributes() holds name, department
\* and salary, holds no name twice and does not hold id; and every call
\* keeps the attributes it found, in their order, as a prefix of the
\* attributes it leaves.
C9_SchemaOnlyGrows ==
    /\ [](TableExists(columns)
            => /\ {"name", "department", "salary"} \subseteq Range(Attributes(columns))
               /\ Cardinality(Range(Attributes(columns))) = Len(Attributes(columns))
               /\ "id" \notin Range(Attributes(columns)))
    /\ [][TableExists(columns)
            => \/ columns' = columns
               \/ IsPrefix(Attributes(columns), Attributes(columns'))]_vars

\* The schema has grown and a record was inserted over it.
C9_Witness ==
    /\ Attributes(columns) = <<"name", "department", "salary", "bonus">>
    /\ last.op = "insert_employee"
    /\ last.result.status = "return"

\* C10: the identifiers queryAll() reports are pairwise different, and an
\* insert that returns an id returns one that no record had when it was
\* called, adds the record under that id and keeps every record that was
\* there.
C10_FreshIdentifier ==
    /\ [](TableExists(columns)
            => LET all == select_all_employees(columns, rows).value
               IN  \A i, j \in 1..Len(all) : all[i][1] = all[j][1] => i = j)
    /\ [][(last'.op = "insert_employee" /\ last'.result.status = "return")
            => LET id == last'.result.value.n
               IN  /\ id \notin DOMAIN rows
                   /\ DOMAIN rows' = DOMAIN rows \cup {id}
                   /\ \A k \in DOMAIN rows : rows'[k] = rows[k]
                   /\ select_employee_by_id(columns', rows', id).value[1] = I(id)]_vars

\* An insert that names no id has returned the id the store chose, beside
\* the record that was there.
C10_Witness ==
    /\ last.op = "insert_employee"
    /\ last.result = Ok(I(2))
    /\ "id" \notin DOMAIN last.employee
    /\ DOMAIN rows = {1, 2}

====
